---- MODULE Spec2Model ----
(***************************************************************************)
(* Model of shared_mutable_access.c: a runner (main thread) that spawns    *)
(* worker threads, each of which meets the others at a spin barrier and    *)
(* then increments the shared counter once.  The runner joins the workers, *)
(* reads the counter, resets the globals and (in complex mode) prints one  *)
(* row of statistics per thread count.                                     *)
(***************************************************************************)
EXTENDS Integers, Sequences, FiniteSets, TLC

(* ---- configuration (scaled down from the source's 10 / 100 / 8) ------- *)
max_threads == 3
total_experiments == 2
initial_thread_count == 2
\* largest barrier target of the stand-alone call of
\* create_threads_and_launch_worker (InitCall)
MaxTarget == 4
\* longest batch handed to the stand-alone call of print_stats (InitStats)
MaxBatch == 3

Max(a, b) == IF a > b THEN a ELSE b
\* thread slots: the indices of 'pthread_t threads[thread_count]'
Threads == 0 .. (Max(Max(max_threads, initial_thread_count), MaxTarget) - 1)

VARIABLES
  use_atomics,            \* #define USE_ATOMICS (0 or non-zero)
  do_complex_mode,        \* static bool do_complex_mode
  do_simple_mode,         \* static bool do_simple_mode
  thread_count,           \* static atomic_int thread_count
  wait_lock,              \* static atomic_int wait_lock
  shared_data,            \* static int / atomic_int shared_data
  pc,                     \* the runner's position in main / complex_mode / simple_mode
  ret,                    \* the caller create_threads_and_launch_worker returns to
  n,                      \* parameter 'thread_count' of create_threads_and_launch_worker
  t,                      \* loop index 't' of create_threads_and_launch_worker
  original_thread_count,  \* local of complex_mode
  successes,              \* local of complex_mode
  results,                \* local array of complex_mode, the part written so far
  experiment,             \* loop index of complex_mode
  wpc,                    \* each thread slot's position in worker / barrier
  eax,                    \* each worker's register (the local copy of shared_data)
  rows,                   \* the table rows printed so far, in order: their first two columns
  printed,                \* the last table row printed; << >> before the first
  simple_out,             \* the line printed by simple_mode, <<>> before it is printed
  spawned,                \* history: for each trial of the current batch (or of simple_mode), how many workers it ran
  arrivals,               \* history: how often the thread in each slot has incremented wait_lock
  writes                  \* history: how often the thread in each slot has written shared_data

vars == << use_atomics, do_complex_mode, do_simple_mode, thread_count, wait_lock,
           shared_data, pc, ret, n, t, original_thread_count, successes, results,
           experiment, wpc, eax, rows, printed, simple_out, spawned, arrivals, writes >>

config   == << use_atomics, do_complex_mode, do_simple_mode >>
globals  == << thread_count, wait_lock, shared_data >>
locals   == << original_thread_count, successes, results, experiment >>
workers  == << wpc, eax >>
output   == << rows, printed, simple_out >>
history  == << spawned, arrivals, writes >>

(* ---- float and double arithmetic of print_stats ----------------------- *)
\* Natural numbers of any size, as sequences of 12-bit limbs, least
\* significant first, without leading zero limbs (TLC's integers have 32 bits).
Base == 4096
LimbBits == 12

RECURSIVE BNorm(_)
BNorm(a) ==
  IF a = << >> THEN a
  ELSE IF a[Len(a)] = 0 THEN BNorm(SubSeq(a, 1, Len(a) - 1)) ELSE a

RECURSIVE BigOfNat(_)
BigOfNat(x) == IF x = 0 THEN << >> ELSE << x % Base >> \o BigOfNat(x \div Base)

RECURSIVE BToNat(_)
BToNat(a) == IF a = << >> THEN 0 ELSE a[1] + Base * BToNat(Tail(a))

RECURSIVE BitLen(_)
BitLen(x) == IF x = 0 THEN 0 ELSE 1 + BitLen(x \div 2)

BBitLen(a) == IF a = << >> THEN 0 ELSE LimbBits * (Len(a) - 1) + BitLen(a[Len(a)])

Limb(a, i) == IF i <= Len(a) THEN a[i] ELSE 0

RECURSIVE BAddC(_, _, _)
BAddC(a, b, carry) ==
  IF a = << >> /\ b = << >>
  THEN (IF carry = 0 THEN << >> ELSE << carry >>)
  ELSE LET s == Limb(a, 1) + Limb(b, 1) + carry
       IN  << s % Base >> \o
           BAddC(IF a = << >> THEN a ELSE Tail(a),
                 IF b = << >> THEN b ELSE Tail(b), s \div Base)

BAdd(a, b) == BAddC(a, b, 0)

\* a - b for a >= b
RECURSIVE BSubC(_, _, _)
BSubC(a, b, borrow) ==
  IF a = << >> THEN << >>
  ELSE LET d == a[1] - Limb(b, 1) - borrow
       IN  << d % Base >> \o
           BSubC(Tail(a), IF b = << >> THEN b ELSE Tail(b), IF d < 0 THEN 1 ELSE 0)

BSub(a, b) == BNorm(BSubC(a, b, 0))

\* a < b
RECURSIVE BLessFrom(_, _, _)
BLessFrom(a, b, i) ==
  IF i = 0 THEN FALSE
  ELSE IF a[i] # b[i] THEN a[i] < b[i] ELSE BLessFrom(a, b, i - 1)

BLess(a, b) ==
  IF Len(a) # Len(b) THEN Len(a) < Len(b) ELSE BLessFrom(a, b, Len(a))

\* a * d for a small d, plus carry
RECURSIVE BMulSmallC(_, _, _)
BMulSmallC(a, d, carry) ==
  IF a = << >> THEN BigOfNat(carry)
  ELSE LET p == a[1] * d + carry
       IN  << p % Base >> \o BMulSmallC(Tail(a), d, p \div Base)

BMulSmall(a, d) == BNorm(BMulSmallC(a, d, 0))

Zeros(k) == [i \in 1 .. k |-> 0]

\* a * 2^k
BShl(a, k) ==
  IF a = << >> THEN a
  ELSE Zeros(k \div LimbBits) \o BMulSmall(a, 2 ^ (k % LimbBits))

\* floor(a / d) for a small d, from the most significant limb down
RECURSIVE BDivSmallFrom(_, _, _, _)
BDivSmallFrom(a, d, i, rem) ==
  IF i = 0 THEN << >>
  ELSE LET cur == rem * Base + a[i]
       IN  BDivSmallFrom(a, d, i - 1, cur % d) \o << cur \div d >>

BDivSmall(a, d) == BNorm(BDivSmallFrom(a, d, Len(a), 0))

\* floor(a / 2^k)
BShr(a, k) ==
  LET w == k \div LimbBits
      rest == IF w >= Len(a) THEN << >> ELSE SubSeq(a, w + 1, Len(a))
  IN  BDivSmall(rest, 2 ^ (k % LimbBits))

RECURSIVE BMulFrom(_, _, _)
BMulFrom(a, b, i) ==
  IF i > Len(b) THEN << >>
  ELSE BAdd(Zeros(i - 1) \o BMulSmall(a, b[i]), BMulFrom(a, b, i + 1))

BMul(a, b) == IF a = << >> \/ b = << >> THEN << >> ELSE BNorm(BMulFrom(a, b, 1))

BOdd(a) == a # << >> /\ a[1] % 2 = 1

\* a rounded to p significant bits, to nearest, ties to even: << q, s >> with
\* the rounded value q * 2^s
RoundBits(a, p) ==
  LET bl == BBitLen(a)
  IN  IF bl <= p THEN << a, 0 >>
      ELSE LET s      == bl - p
               q      == BShr(a, s)
               g      == BShr(a, s - 1)
               guard  == BOdd(g)
               sticky == BShl(g, s - 1) # a
               up     == guard /\ (sticky \/ BOdd(q))
           IN  << IF up THEN BAdd(q, << 1 >>) ELSE q, s >>

\* A float is [m, e], the value m * 2^e, with 2^23 <= m < 2^24, or FZero.
\* (The values of print_stats are far from the subnormal and overflow ranges.)
MantBits == 24
DoubleBits == 53
FZero == [m |-> 0, e |-> 0]

\* the float nearest to a * 2^e: a conversion or the rounding of a float operation
FRound(a, e) ==
  IF a = << >> THEN FZero
  ELSE LET r  == RoundBits(a, MantBits)
           bl == BBitLen(r[1])
       IN  [m |-> BToNat(BShr(BShl(r[1], MantBits), bl)), e |-> e + r[2] + bl - MantBits]

\* (float) x of an int x >= 0
FOfInt(x) == FRound(BigOfNat(x), 0)

\* the values f and g as naturals in units of 2^E, E the smaller exponent
Unit(f, g) == IF f.m = 0 THEN g.e ELSE IF g.m = 0 THEN f.e
              ELSE IF f.e < g.e THEN f.e ELSE g.e
InUnit(f, u) == BShl(BigOfNat(f.m), IF f.m = 0 THEN 0 ELSE f.e - u)

\* f + g in float, for f, g >= 0
FAdd(f, g) == FRound(BAdd(InUnit(f, Unit(f, g)), InUnit(g, Unit(f, g))), Unit(f, g))

\* |f - g| in float, for f, g >= 0
FAbsSub(f, g) ==
  LET u == Unit(f, g)
      a == InUnit(f, u)
      b == InUnit(g, u)
  IN  FRound(IF BLess(a, b) THEN BSub(b, a) ELSE BSub(a, b), u)

\* the odd part of x > 0 and the power of two it was divided by
RECURSIVE OddPart(_)
OddPart(x) == IF x % 2 = 0 THEN OddPart(x \div 2) ELSE x
RECURSIVE TwoPart(_)
TwoPart(x) == IF x % 2 = 0 THEN 1 + TwoPart(x \div 2) ELSE 0

\* f / g in float, for f >= 0 and g > 0 the float of a small int: the
\* quotient with a sticky bit appended, rounded once
FDiv(f, g) ==
  IF f.m = 0 THEN FZero
  ELSE LET d   == OddPart(g.m)
           num == BShl(BigOfNat(f.m), MantBits)
           q   == BDivSmall(num, d)
           st  == IF BMulSmall(q, d) = num THEN << >> ELSE << 1 >>
       IN  FRound(BAdd(BShl(q, 1), st), f.e - MantBits - 1 - g.e - TwoPart(g.m))

\* A double is << a, e >>, the value a * 2^e, with a below 2^53.
\* pow((double) f, 2): the square of a float is exact in double
DSquare(f) == << BMul(BigOfNat(f.m), BigOfNat(f.m)), IF f.m = 0 THEN 0 ELSE 2 * f.e >>

\* (float) ((double) f + d): the sum is rounded to double, then to float
FAddDouble(f, d) ==
  LET u  == IF f.m = 0 THEN d[2] ELSE IF d[1] = << >> THEN f.e
            ELSE IF f.e < d[2] THEN f.e ELSE d[2]
      a  == InUnit(f, u)
      b  == BShl(d[1], IF d[1] = << >> THEN 0 ELSE d[2] - u)
      r  == RoundBits(BAdd(a, b), DoubleBits)
  IN  FRound(r[1], u + r[2])

\* the two bits 2j+1, 2j of m * 2^sh
BitPair(m, sh, j) ==
  IF 2 * j >= sh THEN (m \div 2 ^ (2 * j - sh)) % 4
  ELSE IF sh - 2 * j = 1 THEN 2 * (m % 2) ELSE 0

\* the square root of m * 2^sh digit by digit, from bit pair j down:
\* << floor of the root, remainder >>
RECURSIVE SqrtFrom(_, _, _, _, _)
SqrtFrom(m, sh, j, root, rem) ==
  IF j < 0 THEN << root, rem >>
  ELSE LET r == 4 * rem + BitPair(m, sh, j)
           trial == 4 * root + 1
       IN  IF r >= trial
           THEN SqrtFrom(m, sh, j - 1, 2 * root + 1, r - trial)
           ELSE SqrtFrom(m, sh, j - 1, 2 * root, r)

\* (float) sqrt((double) f): the double square root of a float, rounded to
\* float, is the correctly rounded float square root (53 >= 2 * 24 + 2)
FSqrt(f) ==
  IF f.m = 0 THEN FZero
  ELSE LET sh == IF (f.e - 29) % 2 = 0 THEN 29 ELSE 30
           qr == SqrtFrom(f.m, sh, 26, 0, 0)
           st == IF qr[2] = 0 THEN 0 ELSE 1
       IN  FRound(BigOfNat(2 * qr[1] + st), ((f.e - sh) \div 2) - 1)

(* ---- print_stats ------------------------------------------------------ *)
\* the first loop of print_stats: max and min over results[0 .. count-1],
\* from the sentinels max = 0 and min = max_threads + 1
RECURSIVE max_loop(_, _, _, _)
max_loop(res, count, i, max) ==
  IF i < count
  THEN max_loop(res, count, i + 1, IF res[i + 1] > max THEN res[i + 1] ELSE max)
  ELSE max

RECURSIVE min_loop(_, _, _, _)
min_loop(res, count, i, min) ==
  IF i < count
  THEN min_loop(res, count, i + 1, IF res[i + 1] < min THEN res[i + 1] ELSE min)
  ELSE min

\* faulty variant: the loop starts at i = 1 and misses results[0]
RECURSIVE sum_loop_from_one(_, _, _, _)
sum_loop_from_one(res, count, i, sum) ==
  IF i = 0 THEN sum_loop_from_one(res, count, 1, sum)
  ELSE IF i < count
  THEN LET acc == FAdd(sum, FOfInt(res[i + 1]))
       IN  IF acc.m >= 0 THEN sum_loop_from_one(res, count, i + 1, acc) ELSE acc
  ELSE sum

\* the first loop of print_stats: sum = sum + results[i], in float
\* (the test of the new value makes TLC compute it before the next iteration)
RECURSIVE sum_loop(_, _, _, _)
sum_loop(res, count, i, sum) ==
  IF i < count
  THEN LET acc == FAdd(sum, FOfInt(res[i + 1]))
       IN  IF acc.m >= 0 THEN sum_loop(res, count, i + 1, acc) ELSE acc
  ELSE sum

\* average = sum / (float) experiment_count
average_of(res, count) == FDiv(sum_loop(res, count, 0, FZero), FOfInt(count))

\* the second loop: sum1 = sum1 + pow((results[i] - average), 2); the
\* difference is a float, its square a double (the sign is lost in the square)
RECURSIVE sum1_loop(_, _, _, _, _)
sum1_loop(res, count, i, average, sum1) ==
  IF i < count
  THEN LET acc == FAddDouble(sum1, DSquare(FAbsSub(FOfInt(res[i + 1]), average)))
       IN  IF acc.m >= 0 THEN sum1_loop(res, count, i + 1, average, acc) ELSE acc
  ELSE sum1

\* variance = sum1 / (float) experiment_count
variance_of(res, count) ==
  LET average == average_of(res, count)
  IN  IF average.m >= 0
      THEN FDiv(sum1_loop(res, count, 0, average, FZero), FOfInt(count))
      ELSE average

\* faulty variant: min starts from 0 like max
print_stats_min_zero(tc, succ, res, experiment_count) ==
  [ thread_count  |-> tc,
    experiments   |-> total_experiments,
    failures      |-> total_experiments - succ,
    min           |-> min_loop(res, experiment_count, 0, 0),
    average       |-> average_of(res, experiment_count),
    max           |-> max_loop(res, experiment_count, 0, 0),
    variance      |-> variance_of(res, experiment_count),
    std_deviation |-> FSqrt(variance_of(res, experiment_count)) ]

\* the row print_stats prints: the arguments of its printf
print_stats(tc, succ, res, experiment_count) ==
  [ thread_count  |-> tc,
    experiments   |-> total_experiments,
    failures      |-> total_experiments - succ,
    min           |-> min_loop(res, experiment_count, 0, max_threads + 1),
    average       |-> average_of(res, experiment_count),
    max           |-> max_loop(res, experiment_count, 0, 0),
    variance      |-> variance_of(res, experiment_count),
    std_deviation |-> FSqrt(variance_of(res, experiment_count)) ]

(* ---- initial states --------------------------------------------------- *)
InitCommon ==
  /\ use_atomics \in BOOLEAN
  /\ wait_lock = 0
  /\ shared_data = 0
  /\ t = 0
  /\ original_thread_count = 0
  /\ successes = 0
  /\ results = << >>
  /\ experiment = 0
  /\ wpc = [w \in Threads |-> "none"]
  /\ eax = [w \in Threads |-> 0]
  /\ rows = << >>
  /\ printed = << >>
  /\ simple_out = << >>
  /\ spawned = << >>
  /\ arrivals = [w \in Threads |-> 0]
  /\ writes = [w \in Threads |-> 0]

\* the program at the start of main
Init ==
  /\ InitCommon
  /\ do_complex_mode \in BOOLEAN
  /\ do_simple_mode \in BOOLEAN
  /\ thread_count = initial_thread_count
  /\ pc = "main"
  /\ ret = "none"
  /\ n = 0

\* one stand-alone call create_threads_and_launch_worker(k) with the global
\* thread_count (the barrier target) set to any value >= k
InitCall ==
  /\ InitCommon
  /\ do_complex_mode = FALSE
  /\ do_simple_mode = FALSE
  /\ thread_count \in 1 .. MaxTarget
  /\ n \in 1 .. thread_count
  /\ pc = "create"
  /\ ret = "call"

\* the batches of at most MaxBatch outcomes of trials with tc workers
Batches(tc) == UNION {[1 .. len -> 1 .. tc] : len \in 1 .. MaxBatch}

\* one stand-alone call print_stats(thread_count, successes, results, count)
\* with any batch, its length, and the successes complex_mode counts for it
InitStats ==
  /\ use_atomics = FALSE
  /\ do_complex_mode = FALSE
  /\ do_simple_mode = FALSE
  /\ thread_count \in 1 .. max_threads
  /\ wait_lock = 0
  /\ shared_data = 0
  /\ pc = "stats"
  /\ ret = "none"
  /\ n = 0
  /\ t = 0
  /\ original_thread_count = 0
  /\ results \in Batches(thread_count)
  /\ successes = Cardinality({i \in DOMAIN results : results[i] = thread_count})
  /\ experiment = Len(results)
  /\ wpc = [w \in Threads |-> "none"]
  /\ eax = [w \in Threads |-> 0]
  /\ rows = << >>
  /\ printed = << >>
  /\ simple_out = << >>
  /\ spawned = << >>
  /\ arrivals = [w \in Threads |-> 0]
  /\ writes = [w \in Threads |-> 0]

(* ---- worker threads --------------------------------------------------- *)
\* faulty variant: the arrival is counted twice
barrier_arrive_two(w) ==
  /\ wpc[w] = "barrier"
  /\ wait_lock' = wait_lock + 2
  /\ wpc' = [wpc EXCEPT ![w] = "spin"]
  /\ UNCHANGED << config, thread_count, shared_data, pc, ret, n, t, locals, eax,
                  output, spawned, writes >>
  /\ arrivals' = [arrivals EXCEPT ![w] = arrivals[w] + 1]

\* barrier(): wait_lock += 1 (one atomic read-modify-write)
barrier_arrive(w) ==
  /\ wpc[w] = "barrier"
  /\ wait_lock' = wait_lock + 1
  /\ wpc' = [wpc EXCEPT ![w] = "spin"]
  /\ UNCHANGED << config, thread_count, shared_data, pc, ret, n, t, locals, eax,
                  output, spawned, writes >>
  /\ arrivals' = [arrivals EXCEPT ![w] = arrivals[w] + 1]

\* faulty variant: the loop test is missing, barrier() returns at once
barrier_spin_nowait(w) ==
  /\ wpc[w] = "spin"
  /\ wpc' = [wpc EXCEPT ![w] = "incr"]
  /\ UNCHANGED << config, globals, pc, ret, n, t, locals, eax, output, history >>

\* faulty variant: the loop waits for one arrival too many
barrier_spin_one_more(w) ==
  /\ wpc[w] = "spin"
  /\ IF wait_lock # thread_count + 1
     THEN UNCHANGED wpc
     ELSE wpc' = [wpc EXCEPT ![w] = "incr"]
  /\ UNCHANGED << config, globals, pc, ret, n, t, locals, eax, output, history >>

\* barrier(): one evaluation of 'while (wait_lock != thread_count) {}'
barrier_spin(w) ==
  /\ wpc[w] = "spin"
  /\ IF wait_lock # thread_count
     THEN UNCHANGED wpc
     ELSE wpc' = [wpc EXCEPT ![w] = "incr"]
  /\ UNCHANGED << config, globals, pc, ret, n, t, locals, eax, output, history >>

\* worker(): shared_data += 1 on an atomic_int, one indivisible step
worker_atomic_add(w) ==
  /\ wpc[w] = "incr"
  /\ use_atomics
  /\ shared_data' = shared_data + 1
  /\ wpc' = [wpc EXCEPT ![w] = "done"]
  /\ UNCHANGED << config, thread_count, wait_lock, pc, ret, n, t, locals, eax,
                  output, spawned, arrivals >>
  /\ writes' = [writes EXCEPT ![w] = writes[w] + 1]

\* faulty variant: the plain load / add / store is used whatever USE_ATOMICS says
worker_load_any(w) ==
  /\ wpc[w] = "incr"
  /\ eax' = [eax EXCEPT ![w] = shared_data]
  /\ wpc' = [wpc EXCEPT ![w] = "add"]
  /\ UNCHANGED << config, globals, pc, ret, n, t, locals, output, history >>

\* worker(): mov eax, <shared_data>
worker_load(w) ==
  /\ wpc[w] = "incr"
  /\ ~use_atomics
  /\ eax' = [eax EXCEPT ![w] = shared_data]
  /\ wpc' = [wpc EXCEPT ![w] = "add"]
  /\ UNCHANGED << config, globals, pc, ret, n, t, locals, output, history >>

\* faulty variant: the increment is applied twice
worker_add_two(w) ==
  /\ wpc[w] = "add"
  /\ eax' = [eax EXCEPT ![w] = eax[w] + 2]
  /\ wpc' = [wpc EXCEPT ![w] = "store"]
  /\ UNCHANGED << config, globals, pc, ret, n, t, locals, output, history >>

\* faulty variant: the increment is missing
worker_add_zero(w) ==
  /\ wpc[w] = "add"
  /\ wpc' = [wpc EXCEPT ![w] = "store"]
  /\ UNCHANGED << config, globals, pc, ret, n, t, locals, eax, output, history >>

\* worker(): add eax, 0x1
worker_add(w) ==
  /\ wpc[w] = "add"
  /\ eax' = [eax EXCEPT ![w] = eax[w] + 1]
  /\ wpc' = [wpc EXCEPT ![w] = "store"]
  /\ UNCHANGED << config, globals, pc, ret, n, t, locals, output, history >>

\* faulty variant: the store is executed twice
worker_store_twice(w) ==
  /\ wpc[w] = "store"
  /\ shared_data' = eax[w]
  /\ eax' = [eax EXCEPT ![w] = IF writes[w] = 0 THEN eax[w] ELSE 0]
  /\ wpc' = [wpc EXCEPT ![w] = IF writes[w] = 0 THEN "store" ELSE "done"]
  /\ UNCHANGED << config, thread_count, wait_lock, pc, ret, n, t, locals,
                  output, spawned, arrivals >>
  /\ writes' = [writes EXCEPT ![w] = writes[w] + 1]

\* faulty variant: the store adds to shared_data (a fused read-modify-write)
worker_store_fused(w) ==
  /\ wpc[w] = "store"
  /\ shared_data' = shared_data + 1
  /\ eax' = [eax EXCEPT ![w] = 0]
  /\ wpc' = [wpc EXCEPT ![w] = "done"]
  /\ UNCHANGED << config, thread_count, wait_lock, pc, ret, n, t, locals,
                  output, spawned, arrivals >>
  /\ writes' = [writes EXCEPT ![w] = writes[w] + 1]

\* worker(): mov <shared_data>, eax; return NULL (which clears eax)
worker_store(w) ==
  /\ wpc[w] = "store"
  /\ shared_data' = eax[w]
  /\ eax' = [eax EXCEPT ![w] = 0]
  /\ wpc' = [wpc EXCEPT ![w] = "done"]
  /\ UNCHANGED << config, thread_count, wait_lock, pc, ret, n, t, locals,
                  output, spawned, arrivals >>
  /\ writes' = [writes EXCEPT ![w] = writes[w] + 1]

worker(w) ==
  \/ barrier_arrive(w)
  \/ barrier_spin(w)
  \/ worker_atomic_add(w)
  \/ worker_load(w)
  \/ worker_add(w)
  \/ worker_store(w)

(* ---- create_threads_and_launch_worker --------------------------------- *)
\* the first loop: pthread_create(&threads[t], NULL, worker, NULL)
create ==
  /\ pc = "create"
  /\ IF t < n
     THEN /\ wpc' = [wpc EXCEPT ![t] = "barrier"]
          /\ arrivals' = [arrivals EXCEPT ![t] = 0]
          /\ writes' = [writes EXCEPT ![t] = 0]
          /\ t' = t + 1
          /\ pc' = pc
     ELSE /\ t' = 0
          /\ pc' = "join"
          /\ UNCHANGED << wpc, arrivals, writes >>
  /\ UNCHANGED << config, globals, ret, n, locals, eax, output, spawned >>

\* where the runner continues after create_threads_and_launch_worker returns
return_to ==
  CASE ret = "complex" -> "c_test"
    [] ret = "simple"  -> "s_print"
    [] OTHER           -> "returned"

\* faulty variant: the second loop does not wait for the worker (a detached thread)
join_nowait ==
  /\ pc = "join"
  /\ IF t < n
     THEN /\ t' = t + 1
          /\ pc' = pc
     ELSE /\ t' = 0
          /\ pc' = return_to
  /\ UNCHANGED << config, globals, ret, n, locals, workers, output, history >>

\* the second loop: pthread_join(threads[t], NULL) blocks until worker t has returned
join ==
  /\ pc = "join"
  /\ IF t < n
     THEN /\ wpc[t] = "done"
          /\ wpc' = [wpc EXCEPT ![t] = "none"]
          /\ t' = t + 1
          /\ pc' = pc
     ELSE /\ t' = 0
          /\ pc' = return_to
          /\ UNCHANGED wpc
  /\ UNCHANGED << config, globals, ret, n, locals, eax, output, history >>

(* ---- main ------------------------------------------------------------- *)
\* if (do_complex_mode) { complex_mode(); }
main_complex ==
  /\ pc = "main"
  /\ pc' = IF do_complex_mode THEN "c_save" ELSE "main2"
  /\ UNCHANGED << config, globals, ret, n, t, locals, workers, output, history >>

\* if (do_simple_mode) { simple_mode(); }: simple_mode calls
\* create_threads_and_launch_worker(thread_count)
main_simple ==
  /\ pc = "main2"
  /\ IF do_simple_mode
     THEN /\ n' = thread_count
          /\ t' = 0
          /\ ret' = "simple"
          /\ spawned' = << thread_count >>
          /\ pc' = "create"
     ELSE /\ pc' = "exit"
          /\ UNCHANGED << n, t, ret, spawned >>
  /\ UNCHANGED << config, globals, locals, workers, output >>
  /\ UNCHANGED << arrivals, writes >>

(* ---- simple_mode ------------------------------------------------------ *)
\* printf("thread_count = %d = %d = shared_data\n", thread_count, shared_data)
simple_print ==
  /\ pc = "s_print"
  /\ simple_out' = << thread_count, shared_data >>
  /\ pc' = "s_reset_wait_lock"
  /\ UNCHANGED << config, globals, ret, n, t, locals, workers, rows, printed, history >>

\* wait_lock = 0
simple_reset_wait_lock ==
  /\ pc = "s_reset_wait_lock"
  /\ wait_lock' = 0
  /\ pc' = "s_reset_shared_data"
  /\ UNCHANGED << config, thread_count, shared_data, ret, n, t, locals, workers,
                  output, history >>

\* shared_data = 0
simple_reset_shared_data ==
  /\ pc = "s_reset_shared_data"
  /\ shared_data' = 0
  /\ pc' = "exit"
  /\ UNCHANGED << config, thread_count, wait_lock, ret, n, t, locals, workers,
                  output, history >>

(* ---- complex_mode ----------------------------------------------------- *)
\* atomic_int original_thread_count = thread_count
complex_save ==
  /\ pc = "c_save"
  /\ original_thread_count' = thread_count
  /\ pc' = "c_init"
  /\ UNCHANGED << config, globals, ret, n, t, successes, results, experiment,
                  workers, output, history >>

\* for (thread_count = 1; ...
complex_init ==
  /\ pc = "c_init"
  /\ thread_count' = 1
  /\ pc' = "c_outer"
  /\ UNCHANGED << config, wait_lock, shared_data, ret, n, t, locals, workers,
                  output, history >>

\* faulty variant: the sweep stops one thread count early (< for <=)
complex_outer_lt ==
  /\ pc = "c_outer"
  /\ IF thread_count < max_threads
     THEN /\ successes' = 0
          /\ results' = << >>
          /\ experiment' = 0
          /\ spawned' = << >>
          /\ pc' = "c_inner"
     ELSE /\ pc' = "c_restore"
          /\ UNCHANGED << successes, results, experiment, spawned >>
  /\ UNCHANGED << config, globals, ret, n, t, original_thread_count, workers, output >>
  /\ UNCHANGED << arrivals, writes >>

\* ... thread_count <= max_threads; ...) { int successes = 0; int results[...];
\* for (int experiment = 0; ...
complex_outer ==
  /\ pc = "c_outer"
  /\ IF thread_count <= max_threads
     THEN /\ successes' = 0
          /\ results' = << >>
          /\ experiment' = 0
          /\ spawned' = << >>
          /\ pc' = "c_inner"
     ELSE /\ pc' = "c_restore"
          /\ UNCHANGED << successes, results, experiment, spawned >>
  /\ UNCHANGED << config, globals, ret, n, t, original_thread_count, workers, output >>
  /\ UNCHANGED << arrivals, writes >>

\* faulty variant: every trial runs max_threads workers
complex_inner_max ==
  /\ pc = "c_inner"
  /\ IF experiment < total_experiments
     THEN /\ n' = max_threads
          /\ t' = 0
          /\ ret' = "complex"
          /\ spawned' = Append(spawned, max_threads)
          /\ pc' = "create"
     ELSE /\ pc' = "c_print"
          /\ UNCHANGED << n, t, ret, spawned >>
  /\ UNCHANGED << config, globals, locals, workers, output >>
  /\ UNCHANGED << arrivals, writes >>

\* ... experiment < total_experiments; ...) { create_threads_and_launch_worker(thread_count);
complex_inner ==
  /\ pc = "c_inner"
  /\ IF experiment < total_experiments
     THEN /\ n' = thread_count
          /\ t' = 0
          /\ ret' = "complex"
          /\ spawned' = Append(spawned, thread_count)
          /\ pc' = "create"
     ELSE /\ pc' = "c_print"
          /\ UNCHANGED << n, t, ret, spawned >>
  /\ UNCHANGED << config, globals, locals, workers, output >>
  /\ UNCHANGED << arrivals, writes >>

\* faulty variant: every trial is counted as a success (= for ==)
complex_test_always ==
  /\ pc = "c_test"
  /\ successes' = successes + 1
  /\ pc' = "c_store"
  /\ UNCHANGED << config, globals, ret, n, t, original_thread_count, results,
                  experiment, workers, output, history >>

\* if (shared_data == thread_count) { successes += 1; }
complex_test ==
  /\ pc = "c_test"
  /\ successes' = IF shared_data = thread_count THEN successes + 1 ELSE successes
  /\ pc' = "c_store"
  /\ UNCHANGED << config, globals, ret, n, t, original_thread_count, results,
                  experiment, workers, output, history >>

\* results[experiment] = shared_data
complex_store ==
  /\ pc = "c_store"
  /\ results' = Append(results, shared_data)
  /\ pc' = "c_reset_wait_lock"
  /\ UNCHANGED << config, globals, ret, n, t, original_thread_count, successes,
                  experiment, workers, output, history >>

\* faulty variant: wait_lock is not reset after the trial
complex_reset_wait_lock_skip ==
  /\ pc = "c_reset_wait_lock"
  /\ pc' = "c_reset_shared_data"
  /\ UNCHANGED << config, globals, ret, n, t, locals, workers, output, history >>

\* wait_lock = 0
complex_reset_wait_lock ==
  /\ pc = "c_reset_wait_lock"
  /\ wait_lock' = 0
  /\ pc' = "c_reset_shared_data"
  /\ UNCHANGED << config, thread_count, shared_data, ret, n, t, locals, workers,
                  output, history >>

\* faulty variant: shared_data is not reset after the trial
complex_reset_shared_data_skip ==
  /\ pc = "c_reset_shared_data"
  /\ experiment' = experiment + 1
  /\ pc' = "c_inner"
  /\ UNCHANGED << config, globals, ret, n, t, original_thread_count,
                  successes, results, workers, output, history >>

\* shared_data = 0; } experiment++
complex_reset_shared_data ==
  /\ pc = "c_reset_shared_data"
  /\ shared_data' = 0
  /\ experiment' = experiment + 1
  /\ pc' = "c_inner"
  /\ UNCHANGED << config, thread_count, wait_lock, ret, n, t, original_thread_count,
                  successes, results, workers, output, history >>

\* print_stats(thread_count, successes, results, total_experiments); } thread_count++
complex_print ==
  /\ pc = "c_print"
  /\ printed' = print_stats(thread_count, successes, results, total_experiments)
  /\ rows' = Append(rows, [thread_count |-> printed'.thread_count,
                            experiments  |-> printed'.experiments])
  /\ thread_count' = thread_count + 1
  /\ pc' = "c_outer"
  /\ UNCHANGED << config, wait_lock, shared_data, ret, n, t, locals, workers,
                  simple_out, history >>

\* faulty variant: thread_count is not restored after the sweep
complex_restore_skip ==
  /\ pc = "c_restore"
  /\ pc' = "main2"
  /\ UNCHANGED << config, globals, ret, n, t, locals, workers, output, history >>

\* thread_count = original_thread_count
complex_restore ==
  /\ pc = "c_restore"
  /\ thread_count' = original_thread_count
  /\ pc' = "main2"
  /\ UNCHANGED << config, wait_lock, shared_data, ret, n, t, locals, workers,
                  output, history >>

(* ---- print_stats called on its own ------------------------------------- *)
\* print_stats(thread_count, successes, results, experiment)
stats_call ==
  /\ pc = "stats"
  /\ printed' = print_stats(thread_count, successes, results, experiment)
  /\ pc' = "stats_done"
  /\ UNCHANGED << config, globals, ret, n, t, locals, workers, rows, simple_out,
                  history >>

(* ---- specifications --------------------------------------------------- *)
runner ==
  \/ main_complex
  \/ main_simple
  \/ create
  \/ join
  \/ simple_print
  \/ simple_reset_wait_lock
  \/ simple_reset_shared_data
  \/ complex_save
  \/ complex_init
  \/ complex_outer
  \/ complex_inner
  \/ complex_test
  \/ complex_store
  \/ complex_reset_wait_lock
  \/ complex_reset_shared_data
  \/ complex_print
  \/ complex_restore

Next ==
  \/ runner
  \/ \E w \in Threads : worker(w)

\* the whole program
Spec == Init /\ [][Next]_vars

\* one call of create_threads_and_launch_worker and the workers it spawns
NextCall ==
  \/ create
  \/ join
  \/ \E w \in Threads : worker(w)

SpecCall == InitCall /\ [][NextCall]_vars

\* the operating system schedules every runnable thread again and again
FairCall ==
  /\ SpecCall
  /\ WF_vars(create)
  /\ WF_vars(join)
  /\ \A w \in Threads : WF_vars(worker(w))

\* one call of print_stats
SpecStats == InitStats /\ [][stats_call]_vars

(* ---- properties ------------------------------------------------------- *)
\* the runner is about to read shared_data as the outcome of a trial
AtOutcomeRead == pc \in {"c_test", "c_store", "s_print"}
\* the runner is about to read or reset the globals after a trial
AfterTrial == pc \in {"c_test", "c_store", "c_reset_wait_lock", "c_reset_shared_data",
                      "s_print", "s_reset_wait_lock", "s_reset_shared_data"}
\* positions of a worker that has returned from barrier()
PastBarrier == {"incr", "add", "store", "done"}
\* positions of a worker that is running (created and not yet returned)
Live == {"barrier", "spin", "incr", "add", "store"}

\* C1: with the atomic counter the value the runner reads after joining all
\* workers equals thread_count, whatever the interleaving.
C1_AtomicOutcomeExact ==
  (use_atomics /\ AtOutcomeRead) => shared_data = thread_count

C1_Witness ==
  /\ use_atomics
  /\ pc = "c_test"
  /\ thread_count = max_threads
  /\ shared_data = max_threads

\* C2: with the plain counter and at least two workers the outcome never
\* exceeds thread_count.
C2_PlainOutcomeAtMost ==
  (~use_atomics /\ thread_count >= 2 /\ AtOutcomeRead) => shared_data <= thread_count

\* a trial of max_threads workers that lost an increment
C2_Witness ==
  /\ ~use_atomics
  /\ pc = "c_test"
  /\ thread_count = max_threads
  /\ shared_data < thread_count

\* C3: with one worker every trial ends with outcome 1 in both variants, and
\* the row printed for thread_count 1 reports no failure.
C3_SingleThreadExact ==
  /\ (thread_count = 1 /\ AtOutcomeRead) => shared_data = 1
  /\ (printed # << >> /\ printed.thread_count = 1) => printed.failures = 0

C3_Witness ==
  /\ printed # << >>
  /\ printed.thread_count = 1
  /\ printed.failures = 0
  /\ results = << 1, 1 >>
  /\ pc = "c_outer"

\* C4: a worker is past the barrier only if wait_lock has reached thread_count
\* and every worker of the trial has been created and has done its arrival
\* increment.
C4_BarrierSafety ==
  \A w \in Threads :
    wpc[w] \in PastBarrier =>
      /\ wait_lock = thread_count
      /\ \A s \in 0 .. (n - 1) :
           /\ wpc[s] # "barrier"
           /\ wpc[s] = "none" => (pc = "join" /\ s < t)

\* one worker has left the barrier while another still spins
C4_Witness ==
  /\ thread_count = max_threads
  /\ \E w \in Threads : wpc[w] = "store"
  /\ \E w \in Threads : wpc[w] = "spin"

\* C5: when the number of workers equals the barrier target, every worker
\* eventually leaves the barrier, increments and terminates, and the call returns.
C5_BarrierLiveness ==
  (n = thread_count) ~> (pc = "returned" /\ \A w \in Threads : wpc[w] = "none")

C5_Witness ==
  /\ n = MaxTarget
  /\ thread_count = MaxTarget
  /\ pc = "returned"
  /\ wait_lock = MaxTarget

\* C6: with fewer workers than the barrier target, wait_lock never reaches
\* thread_count, no worker leaves the barrier, shared_data stays 0 and the
\* call never returns.
C6_UnderSubscription ==
  n < thread_count =>
    /\ wait_lock # thread_count
    /\ wait_lock <= n
    /\ \A w \in Threads : wpc[w] \notin PastBarrier
    /\ shared_data = 0
    /\ pc # "returned"

\* all callers have arrived and spin, one short of the target
C6_Witness ==
  /\ thread_count = MaxTarget
  /\ n = MaxTarget - 1
  /\ wait_lock = n
  /\ pc = "join"
  /\ \A s \in 0 .. (n - 1) : wpc[s] = "spin"

\* C7: the runner reads or resets the globals only when no worker is running,
\* and workers run only inside create_threads_and_launch_worker.
C7_JoinDiscipline ==
  /\ AfterTrial => \A w \in Threads : wpc[w] = "none"
  /\ (\E w \in Threads : wpc[w] \in Live) => pc \in {"create", "join"}

\* the runner waits in pthread_join for a worker that has not stored yet
C7_Witness ==
  /\ pc = "join"
  /\ ret = "complex"
  /\ t = 0
  /\ wpc[0] = "store"
  /\ \E w \in Threads : wpc[w] = "done"

\* C8: when the first worker of a trial is about to be spawned, wait_lock and
\* shared_data are both 0.
C8_ResetBeforeTrial ==
  (pc = "create" /\ t = 0) => (wait_lock = 0 /\ shared_data = 0)

\* the simple-mode trial after a sweep that lost an increment in its last trial
C8_Witness ==
  /\ pc = "create"
  /\ t = 0
  /\ ret = "simple"
  /\ Len(rows) = max_threads
  /\ results[total_experiments] < max_threads

\* the sweep has ended
SweepDone ==
  do_complex_mode /\ (pc \in {"c_restore", "main2", "exit"} \/ ret = "simple")

\* C9: the sweep prints one row per thread count, 1, 2, ..., max_threads in
\* this order, each from a batch of total_experiments trials that all ran
\* that many workers.
C9_SweepRows ==
  /\ \A i \in DOMAIN rows :
       rows[i].thread_count = i /\ rows[i].experiments = total_experiments
  /\ Len(rows) <= max_threads
  /\ SweepDone => Len(rows) = max_threads
  /\ pc = "c_print" =>
       /\ Len(rows) = thread_count - 1
       /\ Len(results) = total_experiments
       /\ spawned = [i \in 1 .. total_experiments |-> thread_count]

C9_Witness ==
  /\ pc = "exit"
  /\ Len(rows) = max_threads
  /\ rows[max_threads].thread_count = max_threads

\* the number of recorded outcomes of the batch that differ from tc
Failed(res, tc) == Cardinality({i \in DOMAIN res : res[i] # tc})

\* C10: the failure count of a printed row is the number of recorded outcomes
\* of its batch that differ from its thread_count, and successes and failures
\* add up to the size of the batch.
C10_FailureCount ==
  (pc = "c_outer" /\ printed # << >>) =>
    /\ printed.failures = Failed(results, printed.thread_count)
    /\ successes + printed.failures = Len(results)

\* a row whose batch has one success and one failure
C10_Witness ==
  /\ pc = "c_outer"
  /\ printed # << >>
  /\ printed.failures = 1
  /\ successes = 1
  /\ Len(results) = 2

\* the orders of the batch res
Orders(res) ==
  {[i \in DOMAIN res |-> res[p[i]]] :
     p \in {q \in [DOMAIN res -> DOMAIN res] : \A i, j \in DOMAIN res : q[i] = q[j] => i = j}}

\* C11: the summary does not depend on the order of the batch: every order
\* of the outcomes gives the same failure count, min, max, mean and variance.
C11_OrderIndependent ==
  pc = "stats_done" =>
    \A p \in Orders(results) :
      print_stats(thread_count, successes, p, experiment) = printed

\* C12: a batch whose outcomes all equal v has mean v, variance 0 and
\* standard deviation 0.
C12_AllEqual ==
  (pc = "stats_done" /\ \A i \in DOMAIN results : results[i] = results[1]) =>
    /\ printed.average = FOfInt(results[1])
    /\ printed.variance = FZero
    /\ printed.std_deviation = FZero

C12_Witness ==
  /\ pc = "stats_done"
  /\ results = [i \in 1 .. MaxBatch |-> max_threads]
  /\ printed.average = FOfInt(max_threads)
  /\ printed.variance = FZero

\* the runner is inside create_threads_and_launch_worker
InTrial == pc \in {"create", "join"}

C14_SpawnEqualsTarget ==
  (InTrial \/ \E w \in Threads : wpc[w] # "none") => n = thread_count

C14_Witness ==
  /\ pc = "join"
  /\ ret = "complex"
  /\ n = max_threads
  /\ thread_count = max_threads
  /\ \E w \in Threads : wpc[w] = "spin"

\* the number of stores to shared_data completed in the current trial, up to
\* the runner's reset of shared_data
CompletedIn(k) == Cardinality({s \in 0 .. (k - 1) : writes[s] >= 1})
Completed ==
  IF pc = "create" THEN CompletedIn(t)
  ELSE IF pc = "join" \/ AfterTrial THEN CompletedIn(n)
  ELSE 0

\* C15: every worker increments wait_lock exactly once, before it spins, and
\* writes shared_data exactly once, after the barrier; when the workers have
\* been joined wait_lock = thread_count and each of the thread_count workers
\* has written once.
C15_OncePerWorker ==
  /\ \A w \in Threads :
       /\ wpc[w] = "barrier" => (arrivals[w] = 0 /\ writes[w] = 0)
       /\ wpc[w] \in {"spin", "incr", "add", "store"} => (arrivals[w] = 1 /\ writes[w] = 0)
       /\ wpc[w] = "done" => (arrivals[w] = 1 /\ writes[w] = 1)
  /\ AtOutcomeRead =>
       /\ wait_lock = thread_count
       /\ \A s \in 0 .. (thread_count - 1) : arrivals[s] = 1 /\ writes[s] = 1

C15_Witness ==
  /\ pc = "c_test"
  /\ ~use_atomics
  /\ thread_count = max_threads
  /\ shared_data < thread_count
  /\ \A s \in 0 .. (thread_count - 1) : writes[s] = 1

\* a call with two workers and the plain counter
TwoPlain == n = 2 /\ thread_count = 2 /\ ~use_atomics
\* both workers have loaded shared_data and neither has stored
BothLoaded == TwoPlain /\ \A w \in {0, 1} : wpc[w] \in {"add", "store"}
\* one worker has stored before the other has loaded
OneAfterOther ==
  TwoPlain /\ \E w \in {0, 1} : wpc[w] = "done" /\ wpc[1 - w] \in {"spin", "incr"}

\* C16: with two workers, if both load before either stores the call ends
\* with shared_data = 1, and if one stores before the other loads it ends
\* with shared_data = 2.
C16_LostUpdate ==
  /\ [](BothLoaded => [](pc = "returned" => shared_data = 1))
  /\ [](OneAfterOther => [](pc = "returned" => shared_data = 2))

\* an outcome below thread_count
C16_Witness ==
  /\ TwoPlain
  /\ pc = "returned"
  /\ shared_data = 1

\* C17: wait_lock never exceeds thread_count, and once it equals thread_count
\* it keeps that value until the runner resets it.
C17_NoOvershoot ==
  /\ [](wait_lock <= thread_count)
  /\ [][wait_lock = thread_count =>
          \/ (wait_lock' = wait_lock /\ thread_count' = thread_count)
          \/ (pc \in {"c_reset_wait_lock", "s_reset_wait_lock"} /\ wait_lock' = 0)]_vars

\* a worker that still spins after the barrier has opened
C17_Witness ==
  /\ wait_lock = thread_count
  /\ thread_count = max_threads
  /\ \E w \in Threads : wpc[w] = "spin"
  /\ \E w \in Threads : wpc[w] = "done"

\* C18: with the plain counter shared_data is never negative and never more
\* than the number of stores completed in the trial.
C18_AtMostCompleted ==
  ~use_atomics => (0 <= shared_data /\ shared_data <= Completed)

\* a stale value has been written back over a larger one
C18_Witness ==
  /\ ~use_atomics
  /\ pc = "join"
  /\ Completed = 3
  /\ shared_data = 1
  /\ \E w \in Threads : writes[w] = 1 /\ eax[w] = 0 /\ wpc[w] = "done"

\* C19: in both variants, once a worker has completed its store shared_data
\* is at least 1 until the runner resets it, so every outcome is at least 1.
C19_AtLeastOne ==
  /\ Completed >= 1 => shared_data >= 1
  /\ AtOutcomeRead => shared_data >= 1

\* all workers have stored and only one increment is left
C19_Witness ==
  /\ pc = "c_test"
  /\ thread_count = max_threads
  /\ shared_data = 1

\* the least and the greatest element of a non-empty batch
MinOf(res) == CHOOSE x \in {res[i] : i \in DOMAIN res} : \A i \in DOMAIN res : x <= res[i]
MaxOf(res) == CHOOSE x \in {res[i] : i \in DOMAIN res} : \A i \in DOMAIN res : x >= res[i]

\* C20: the min and max of every printed row are the least and the greatest
\* outcome of its batch, all outcomes lying between 1 and the row's
\* thread_count, so that neither starting value is printed.
C20_MinMax ==
  (pc = "c_outer" /\ printed # << >>) =>
    /\ printed.min = MinOf(results)
    /\ printed.max = MaxOf(results)
    /\ \A i \in DOMAIN results : results[i] \in 1 .. printed.thread_count
    /\ printed.thread_count <= max_threads
    /\ printed.min # max_threads + 1
    /\ printed.max # 0

C20_Witness ==
  /\ pc = "c_outer"
  /\ printed # << >>
  /\ printed.thread_count = max_threads
  /\ printed.min = 1
  /\ printed.max = max_threads

====
